---- MODULE Spec2Model ----
(***************************************************************************)
(* MyFlix backend: the POST /api/watched handler (watch-progress upsert)   *)
(* in its three versions, over a PostgreSQL table reached through a        *)
(* shared pg connection pool.                                              *)
(*                                                                         *)
(*   "v1"  src/server.js          lines 142-300                            *)
(*   "v2"  src/server.js          lines 490-671                            *)
(*   "v3"  src/unnamed/part_000   lines 167-375                            *)
(*                                                                         *)
(* JavaScript scalars are strings: "undefined", "null", "NaN", "true",     *)
(* "false" stand for the values of those names, a string of digits for     *)
(* that number.  A JSON column is [null |-> TRUE] or [obj |-> ...].        *)
(***************************************************************************)
EXTENDS Integers, FiniteSets, Sequences, TLC

Undefined == "undefined"
Null == "null"
NaN == "NaN"

\* What `!v`, `v || d` and `if (v)` treat as false.
Falsy == {Undefined, Null, NaN, "", "false", "0"}
Truthy(v) == v \notin Falsy

\* v || d
OrElse(v, d) == IF Truthy(v) THEN v ELSE d

\* parseInt(v, 10) on the values the requests of this model carry.
ParseInt(v) ==
  CASE v \in {"0", "1", "2", "3", "-1"} -> v
    [] v = "01" -> "1"
    [] v = "2x" -> "2"
    [] OTHER -> NaN

\* A value bound to a query parameter: undefined is sent as NULL, and NaN
\* inside a JSON document is written as null.
ToParam(v) == IF v \in {Undefined, NaN} THEN Null ELSE v

\* a === b on two numbers (NaN equals nothing, null is no number).
StrictEqNum(a, b) == a \notin {NaN, Null, Undefined} /\ a = b

(***************************************************************************)
(* JSON columns.  A map is a set of <<key, value>> pairs, one per key.     *)
(***************************************************************************)
JNull == [null |-> TRUE]
JObj(m) == [obj |-> m]
EmptyMap == {}

\* col || {}
MapOrEmpty(col) == IF col = JNull THEN EmptyMap ELSE col.obj

Keys(m) == {p[1] : p \in m}
\* m[k] = v
MapSet(m, k, v) == {p \in m : p[1] # k} \cup {<<k, v>>}
\* delete m[k]
MapDelete(m, k) == {p \in m : p[1] # k}

\* last_watched_episode as an object; timestamp is the clock reading.
LastEp(s, e, t) == [season |-> s, episode |-> e, timestamp |-> t]

\* `S${season}E${episode}`
EpKey(season, episode) == "S" \o season \o "E" \o episode

(***************************************************************************)
(* Rows of watched_progress.                                               *)
(***************************************************************************)
NoRow == [absent |-> TRUE]

validTvStatusesFromDB == <<"watching", "completed", "on_hold", "dropped", "plan_to_watch">>
ValidTvStatuses == {validTvStatusesFromDB[i] : i \in 1..Len(validTvStatusesFromDB)}

(***************************************************************************)
(* Requests.  A body field that is missing is Undefined.                   *)
(*   watched_episode       [given, season, episode, watched]               *)
(*   watched_episodes      [has, val]   has: the body has the property     *)
(*   last_watched_episode  [has, val]                                      *)
(*   episodes_in_season    [given, obj]                                    *)
(***************************************************************************)
NoToggle == [given |-> FALSE, season |-> Undefined, episode |-> Undefined, watched |-> Undefined]
Toggle(s, e, w) == [given |-> TRUE, season |-> s, episode |-> e, watched |-> w]
NoOverride == [has |-> FALSE, val |-> JNull]
Override(val) == [has |-> TRUE, val |-> val]
NoSeasons == [given |-> FALSE, obj |-> EmptyMap]
SeasonCounts(m) == [given |-> TRUE, obj |-> m]

\* if (!imdb_id || !media_type || !title) ... if (!['movie','tv'].includes(media_type))
MissingRequired(req) ==
  \/ ~Truthy(req.imdb_id) \/ ~Truthy(req.media_type) \/ ~Truthy(req.title)
  \/ req.media_type \notin {"movie", "tv"}

\* (mutant) the toggle is never tested
BadToggleNever(req) == FALSE

\* watched_episode && (typeof season === 'undefined' || ...), tested on the tv branch only
BadToggle(req) ==
  /\ req.watched_episode.given
  /\ \/ req.watched_episode.season = Undefined
     \/ req.watched_episode.episode = Undefined
     \/ req.watched_episode.watched = Undefined

(***************************************************************************)
(* The tv branch: the values written, from the request and the row read.   *)
(* v is the handler version, existing the row the SELECT returned or       *)
(* NoRow, now the clock when the toggle is applied.                        *)
(***************************************************************************)
determinedStatus(req, existing) ==
  IF ~Truthy(req.status) /\ existing # NoRow THEN existing.status ELSE req.status

\* (mutant) the status is stored as determined, without the test against the set
finalTvStatusToSaveUnchecked(req, existing) == determinedStatus(req, existing)

finalTvStatusToSave(req, existing) ==
  LET d == determinedStatus(req, existing)
  IN  IF Truthy(d) /\ d \in ValidTvStatuses
      THEN d
      ELSE IF "watching" \in ValidTvStatuses THEN "watching" ELSE validTvStatusesFromDB[1]

finalTitle(v, req, existing) ==
  IF v = "v3" /\ existing # NoRow THEN OrElse(req.title, existing.title) ELSE req.title

finalPosterUrl(v, req, existing) ==
  IF v = "v3" /\ existing # NoRow THEN OrElse(req.poster_url, existing.poster_url) ELSE req.poster_url

finalTotalSeasons(v, req, existing) ==
  LET t == req.total_seasons
      parsed == IF ParseInt(t) = NaN THEN Null ELSE ParseInt(t)
      fromReq == CASE v = "v1" -> t
                   [] v = "v2" -> IF t \notin {Undefined, Null, ""} THEN parsed ELSE Null
                   [] OTHER    -> IF t # Undefined THEN parsed ELSE Null
  IN  CASE existing = NoRow -> fromReq
        [] v = "v1" -> IF fromReq = Undefined THEN existing.total_seasons ELSE fromReq
        [] v = "v2" -> IF fromReq = Null /\ existing.total_seasons # Null
                       THEN existing.total_seasons ELSE fromReq
        [] OTHER    -> IF fromReq = Null THEN existing.total_seasons ELSE fromReq

\* (mutant) the body's watched_episodes is not read
baseWatchedEpisodesFromRow(v, req, existing) ==
  IF existing = NoRow THEN EmptyMap ELSE MapOrEmpty(existing.watched_episodes)

\* The map and last-watched value the toggle is applied to: the row's, or
\* in v3 the body's own watched_episodes / last_watched_episode.
baseWatchedEpisodes(v, req, existing) ==
  LET fromRow == IF existing = NoRow THEN EmptyMap ELSE MapOrEmpty(existing.watched_episodes)
  IN  IF v = "v3" /\ req.watched_episodes.has
      THEN MapOrEmpty(req.watched_episodes.val)
      ELSE fromRow

baseLastWatchedEpisode(v, req, existing) ==
  LET fromRow == IF existing = NoRow THEN JNull ELSE existing.last_watched_episode
  IN  IF v = "v3" /\ req.last_watched_episode.has
      THEN req.last_watched_episode.val
      ELSE fromRow

\* (mutant) an unwatched toggle leaves the key in the map
finalWatchedEpisodesKeepsKey(v, req, existing) ==
  LET base == baseWatchedEpisodes(v, req, existing)
      we == req.watched_episode
  IN  IF we.given /\ Truthy(we.watched)
      THEN MapSet(base, EpKey(we.season, we.episode), "true")
      ELSE base

\* (mutant) a watched toggle of a key already in the map removes it
finalWatchedEpisodesFlips(v, req, existing) ==
  LET base == baseWatchedEpisodes(v, req, existing)
      we == req.watched_episode
      k == EpKey(we.season, we.episode)
  IN  IF ~we.given THEN base
      ELSE IF Truthy(we.watched) /\ k \notin Keys(base)
           THEN MapSet(base, k, "true")
           ELSE MapDelete(base, k)

finalWatchedEpisodes(v, req, existing) ==
  LET base == baseWatchedEpisodes(v, req, existing)
      we == req.watched_episode
  IN  IF ~we.given THEN base
      ELSE IF Truthy(we.watched)
           THEN MapSet(base, EpKey(we.season, we.episode), "true")
           ELSE MapDelete(base, EpKey(we.season, we.episode))

\* (mutant) a watched toggle sets last_watched_episode only when it is null
finalLastWatchedEpisodeKeepsFirst(v, req, existing, now) ==
  LET base == baseLastWatchedEpisode(v, req, existing)
      we == req.watched_episode
  IN  IF ~we.given THEN base
      ELSE IF Truthy(we.watched)
           THEN IF base = JNull
                THEN JObj(LastEp(ToParam(ParseInt(we.season)), ToParam(ParseInt(we.episode)), now))
                ELSE base
           ELSE IF /\ base # JNull
                   /\ StrictEqNum(base.obj.season, ParseInt(we.season))
                   /\ StrictEqNum(base.obj.episode, ParseInt(we.episode))
                THEN JNull
                ELSE base

\* (mutant) an unwatched toggle clears last_watched_episode whatever it names
finalLastWatchedEpisodeClearsAlways(v, req, existing, now) ==
  LET base == baseLastWatchedEpisode(v, req, existing)
      we == req.watched_episode
  IN  IF ~we.given THEN base
      ELSE IF Truthy(we.watched)
           THEN JObj(LastEp(ToParam(ParseInt(we.season)), ToParam(ParseInt(we.episode)), now))
           ELSE JNull

\* (mutant) an unwatched toggle never clears last_watched_episode
finalLastWatchedEpisodeNeverCleared(v, req, existing, now) ==
  LET base == baseLastWatchedEpisode(v, req, existing)
      we == req.watched_episode
  IN  IF ~we.given THEN base
      ELSE IF Truthy(we.watched)
           THEN JObj(LastEp(ToParam(ParseInt(we.season)), ToParam(ParseInt(we.episode)), now))
           ELSE base

\* (mutant) an unwatched toggle of the episode last_watched_episode names
\* sets it back to an episode that is still in the map
finalLastWatchedEpisodeFallsBack(v, req, existing, now) ==
  LET base == baseLastWatchedEpisode(v, req, existing)
      we == req.watched_episode
      rest == finalWatchedEpisodes(v, req, existing)
      named == {n \in {"1", "2", "3"} \X {"1", "2", "3"} : EpKey(n[1], n[2]) \in Keys(rest)}
      earlier == CHOOSE n \in named : TRUE
  IN  IF ~we.given THEN base
      ELSE IF Truthy(we.watched)
           THEN JObj(LastEp(ToParam(ParseInt(we.season)), ToParam(ParseInt(we.episode)), now))
           ELSE IF /\ base # JNull
                   /\ StrictEqNum(base.obj.season, ParseInt(we.season))
                   /\ StrictEqNum(base.obj.episode, ParseInt(we.episode))
                THEN IF named = {} THEN JNull ELSE JObj(LastEp(earlier[1], earlier[2], now))
                ELSE base

finalLastWatchedEpisode(v, req, existing, now) ==
  LET base == baseLastWatchedEpisode(v, req, existing)
      we == req.watched_episode
  IN  IF ~we.given THEN base
      ELSE IF Truthy(we.watched)
           THEN JObj(LastEp(ToParam(ParseInt(we.season)), ToParam(ParseInt(we.episode)), now))
           ELSE IF /\ base # JNull
                   /\ StrictEqNum(base.obj.season, ParseInt(we.season))
                   /\ StrictEqNum(base.obj.episode, ParseInt(we.episode))
                THEN JNull
                ELSE base

\* (mutant) the request's counts replace the stored map
finalEpisodesInSeasonReplaces(v, req, existing) ==
  LET given == IF req.episodes_in_season.given THEN req.episodes_in_season.obj ELSE EmptyMap
  IN  IF v = "v1" THEN given
      ELSE {<<p[1], ParseInt(p[2])>> : p \in {q \in given : ParseInt(q[2]) # NaN}}

\* for (const seasonNum in episodes_in_season) ...: v1 copies the counts,
\* v2 and v3 keep the ones parseInt reads a number from.
finalEpisodesInSeason(v, req, existing) ==
  LET base == IF existing = NoRow THEN EmptyMap ELSE MapOrEmpty(existing.episodes_in_season)
      given == IF req.episodes_in_season.given THEN req.episodes_in_season.obj ELSE EmptyMap
      kept == IF v = "v1" THEN given
              ELSE {<<p[1], ParseInt(p[2])>> : p \in {q \in given : ParseInt(q[2]) # NaN}}
  IN  {p \in base : p[1] \notin Keys(kept)} \cup kept

\* INSERT INTO watched_progress (...) VALUES (...): a column the statement
\* does not name gets its default, NULL (v1 names no status).
TvInsertRow(v, req, existing, date, now) ==
  [ media_type |-> "tv",
    title |-> finalTitle(v, req, existing),
    poster_url |-> ToParam(finalPosterUrl(v, req, existing)),
    status |-> IF v = "v1" THEN Null ELSE finalTvStatusToSave(req, existing),
    watched_episodes |-> JObj(finalWatchedEpisodes(v, req, existing)),
    total_seasons |-> ToParam(finalTotalSeasons(v, req, existing)),
    episodes_in_season |-> JObj(finalEpisodesInSeason(v, req, existing)),
    last_watched_episode |-> finalLastWatchedEpisode(v, req, existing, now),
    last_interaction_date |-> date ]

\* UPDATE watched_progress SET ... WHERE imdb_id = $n, applied to the row
\* `row` the table holds now (media_type is not set; v1 sets no status).
TvUpdateRow(v, req, existing, row, date, now) ==
  LET vals == TvInsertRow(v, req, existing, date, now)
  IN  [vals EXCEPT !.media_type = row.media_type,
                   !.status = IF v = "v1" THEN row.status ELSE vals.status]

(***************************************************************************)
(* The movie branch.                                                       *)
(***************************************************************************)
\* v3: status || 'watched'; v1, v2: 'watched'
movieStatusToSave(v, req) == IF v = "v3" THEN OrElse(req.status, "watched") ELSE "watched"

MovieInsertRow(v, req, date) ==
  [ media_type |-> req.media_type,
    title |-> req.title,
    poster_url |-> ToParam(req.poster_url),
    status |-> movieStatusToSave(v, req),
    watched_episodes |-> JNull,
    total_seasons |-> Null,
    episodes_in_season |-> JNull,
    last_watched_episode |-> JNull,
    last_interaction_date |-> date ]

\* ON CONFLICT (imdb_id) DO UPDATE SET title, poster_url, status, last_interaction_date
MovieConflictRow(v, req, row, date) ==
  [row EXCEPT !.title = req.title,
              !.poster_url = ToParam(req.poster_url),
              !.status = movieStatusToSave(v, req),
              !.last_interaction_date = date]

\* (mutant) the DELETE matches no row
MovieDeleteMatchesNone(row) == FALSE

\* (mutant) the DELETE matches the row whatever its media_type
MovieDeleteMatchesAnyType(row) == row # NoRow

\* DELETE FROM watched_progress WHERE imdb_id = $1 AND media_type = 'movie'
MovieDeleteMatches(row) == row # NoRow /\ row.media_type = "movie"

(***************************************************************************)
(* The favorites table.  favorites[k] is the set of rows whose imdb_id is  *)
(* k; the unique key of ON CONFLICT (imdb_id) is what keeps it to one row. *)
(***************************************************************************)
\* if (!imdb_id || !title || !media_type) ... if (!['movie','tv'].includes(media_type))
FavoriteInvalid(req) ==
  \/ ~Truthy(req.imdb_id) \/ ~Truthy(req.title) \/ ~Truthy(req.media_type)
  \/ req.media_type \notin {"movie", "tv"}

\* INSERT INTO favorites ... VALUES ($1, $2, $3, $4): added_date gets its default.
FavoriteRow(req, date) ==
  [ title |-> req.title,
    poster_url |-> ToParam(req.poster_url),
    media_type |-> req.media_type,
    added_date |-> date ]

\* (mutant) the insert never conflicts
FavoriteConflictsNever(rows) == FALSE

\* (mutant) the insert always conflicts
FavoriteConflictsAlways(rows) == TRUE

\* ON CONFLICT (imdb_id): a row with the imdb_id is there.
FavoriteConflicts(rows) == rows # {}

\* (mutant) the INSERT adds its row whatever is there
FavoriteInsertedAlways(rows, req, date) == {FavoriteRow(req, date)}

\* ... DO NOTHING RETURNING *: the rows the INSERT adds and returns.
FavoriteInserted(rows, req, date) ==
  IF FavoriteConflicts(rows) THEN {} ELSE {FavoriteRow(req, date)}

(***************************************************************************)
(* State.                                                                  *)
(***************************************************************************)
VARIABLES
  variant,     \* the version of the handler that is deployed
  db,          \* watched_progress, committed: imdb_id -> row or NoRow
  clock,       \* what new Date() reads
  reply,       \* the last response sent by a request handled in one piece
  hist,        \* per imdb_id, what the requests handled so far asked for
  conns,       \* the pool's clients: the transaction each has open
  idle,        \* the pool's idle clients, the last released one last
  pending,     \* slots whose statement waits for a client, the oldest first
  poolMax,     \* the most clients the pool opens
  inflight,    \* the requests being handled, one per slot
  rolledBack,  \* app.locals.rolledBack (v3)
  failures,    \* statements that failed for a reason outside the handler
  started,     \* requests received so far
  favorites,   \* the favorites table, committed: imdb_id -> the rows with that imdb_id
  favReply     \* the last response of a /api/favorites request

vars == <<variant, db, clock, reply, hist, conns, idle, pending, poolMax, inflight, rolledBack, failures, started,
         favorites, favReply>>
favVars == <<favorites, favReply>>
poolVars == <<conns, idle, pending, poolMax, inflight, rolledBack, failures, started>>

Variants == {"v1", "v2", "v3"}
ImdbIds == {"tt1", "tt2"}

NoReply == [code |-> "none"]
\* sql: the statements the handler issued, in order.
Reply(code, req, body, before, sql) ==
  [code |-> code, req |-> req, body |-> body, before |-> before, sql |-> sql]

\* hist[k]:
\*   tvOnly        every request handled for k so far was a tv POST answered 200
\*   on            the episode keys whose most recent toggle was watched
\*   lastOn        season and episode (as parseInt reads them) of the most
\*                 recent watched toggle, JNull before the first
\*   movieOnly     every request handled for k so far was a movie POST
\*   mapOverride   some request carried a watched_episodes property
\*   lastOverride  a request carried a non-null last_watched_episode and no
\*                 watched toggle was applied with it or after it
NoHist == [tvOnly |-> TRUE, movieOnly |-> TRUE, on |-> {}, lastOn |-> JNull, mapOverride |-> FALSE, lastOverride |-> FALSE]

HistAfterTv(h, req) ==
  LET we == req.watched_episode
      k == EpKey(we.season, we.episode)
      toggledOn == we.given /\ Truthy(we.watched)
  IN  [ tvOnly |-> h.tvOnly,
        movieOnly |-> FALSE,
        on |-> IF ~we.given THEN h.on
               ELSE IF toggledOn THEN h.on \cup {k} ELSE h.on \ {k},
        lastOn |-> IF toggledOn
                   THEN JObj([season |-> ToParam(ParseInt(we.season)),
                              episode |-> ToParam(ParseInt(we.episode))])
                   ELSE h.lastOn,
        mapOverride |-> h.mapOverride \/ req.watched_episodes.has,
        lastOverride |-> IF toggledOn THEN FALSE
                         ELSE h.lastOverride
                              \/ (req.last_watched_episode.has /\ req.last_watched_episode.val # JNull) ]

HistAfterOther(h) == [h EXCEPT !.tvOnly = FALSE]

(***************************************************************************)
(* Requests of the model.                                                  *)
(***************************************************************************)
Req(id, mt, title, poster, status, toggle, mapOv, lastOv, total, seasons) ==
  [ imdb_id |-> id, media_type |-> mt, title |-> title, poster_url |-> poster,
    status |-> status, watched_episode |-> toggle, watched_episodes |-> mapOv,
    last_watched_episode |-> lastOv, total_seasons |-> total,
    episodes_in_season |-> seasons ]

MaxEpisode == 2
EpisodeNumbers == {ToString(i) : i \in 1..MaxEpisode}

Toggles ==
  {NoToggle} \cup {Toggle("1", e, w) : e \in EpisodeNumbers, w \in {"true", "false"}}

\* The requests about episodes of one title; every field the episode logic
\* does not read is left out of the body.
TvRequest(id, status, toggle, mapOv, lastOv) ==
  Req(id, "tv", "X", Undefined, status, toggle, mapOv, lastOv, Undefined, NoSeasons)
MovieRequest(id, status) ==
  Req(id, "movie", "X", Undefined, status, NoToggle, NoOverride, NoOverride, Undefined, NoSeasons)

Overrides ==
  { <<NoOverride, NoOverride>>,
    <<Override(JObj(EmptyMap)), Override(JNull)>>,
    <<Override(JObj(EmptyMap)), NoOverride>>,
    <<NoOverride, Override(JObj(LastEp("2", "1", 0)))>> }

EpisodeRequests ==
  {TvRequest("tt1", Undefined, tg, ov[1], ov[2]) : tg \in Toggles, ov \in Overrides}
  \cup {MovieRequest("tt1", st) : st \in {Undefined, "unwatched"}}

\* The requests about status and media type, on two titles.
Statuses == {Undefined, "completed", "unwatched"}

StatusRequests ==
  {TvRequest(id, st, NoToggle, NoOverride, NoOverride) : id \in ImdbIds, st \in Statuses}
  \cup {MovieRequest(id, st) : id \in ImdbIds, st \in Statuses}
  \cup {Req("tt1", mt, "X", Undefined, Undefined, tg, NoOverride, NoOverride, Undefined, NoSeasons) :
          mt \in {"tv", "book", "movie"}, tg \in {Toggle("1", Undefined, "true")}}
  \cup {Req(f[1], f[2], f[3], Undefined, Undefined, NoToggle, NoOverride, NoOverride, Undefined, NoSeasons) :
          f \in {<<Undefined, "tv", "X">>, <<"tt1", Undefined, "X">>, <<"tt1", "tv", Undefined>>}}

\* The requests of the model with both tables: watched progress of both
\* media types and favorites, on two titles.
TableRequests ==
  {TvRequest(id, st, NoToggle, NoOverride, NoOverride) : id \in ImdbIds, st \in {Undefined, "unwatched"}}
  \cup {MovieRequest(id, st) : id \in ImdbIds, st \in {Undefined, "unwatched"}}

FavoriteRequests ==
  {[imdb_id |-> id, title |-> "X", poster_url |-> Undefined, media_type |-> mt] :
     id \in ImdbIds, mt \in {"tv", "book"}}

\* The requests about the keys of watched_episodes of one title: toggles
\* whose season or episode is a number, a number with a leading zero or
\* with trailing text, and watched_episodes objects sent whole.
KeyToggles ==
  {NoToggle} \cup {Toggle(sn, e, "true") : sn \in {"1", "2x"}, e \in {"1", "01"}}
KeyMaps == { {<<"S1E2", "true">>}, {<<"S1E2", "false">>}, {<<"pilot", "true">>} }
KeyRequests ==
  {TvRequest("tt1", Undefined, tg, ov, NoOverride) :
     tg \in KeyToggles, ov \in {NoOverride} \cup {Override(JObj(m)) : m \in KeyMaps}}

\* The requests about poster_url and total_seasons of one title: omitted,
\* given, and a total_seasons that is no number.
FieldRequests ==
  {Req("tt1", "tv", "X", po, Undefined, NoToggle, NoOverride, NoOverride, ts, NoSeasons) :
     po \in {Undefined, "p", "q"}, ts \in {Undefined, "3", "4", "x"}}

\* The requests about episodes_in_season of one title: counts that are
\* numbers, a negative one and one that is no number.
Counts == {"2", "3", "-1", "x"}
SeasonMaps ==
  {{<<sn, c>>} : sn \in {"1", "2"}, c \in Counts}
  \cup {{<<"1", c>>, <<"2", d>>} : c \in {"2", "x"}, d \in {"3", "x"}}

SeasonRequests ==
  {Req("tt1", "tv", "X", Undefined, Undefined, NoToggle, NoOverride, NoOverride, Undefined, sc) :
     sc \in {NoSeasons} \cup {SeasonCounts(m) : m \in SeasonMaps}}
  \cup {MovieRequest("tt1", st) : st \in {Undefined, "unwatched"}}

(***************************************************************************)
(* The pool and the transactions of its clients.  Every statement of the   *)
(* handler is a pool.query(text): it takes a client from the pool, runs    *)
(* the statement on it and gives the client back when the statement has    *)
(* answered.  The pool hands out the idle client released last; with no    *)
(* idle client it opens a new one unless it already holds its maximum, and *)
(* then the statement waits in a first-in first-out queue for the next     *)
(* client released.  A client released with an error is closed, and the    *)
(* server discards the transaction open on it.  A client keeps the         *)
(* transaction a BEGIN opened on it until a COMMIT or ROLLBACK runs on the *)
(* same client.                                                            *)
(***************************************************************************)
MaxInFlight == 2
Slots == 1..MaxInFlight
\* The pool holds a client only while a statement needs one or after one
\* released it: never more clients than requests that were in flight at once.
Conns == 1..MaxInFlight

Untouched == [untouched |-> TRUE]
\* wr: the rows of watched_progress, fav: the rows of favorites the open
\* transaction wrote.
NoTx == [tx |-> "none", wr |-> [k \in ImdbIds |-> Untouched], fav |-> [k \in ImdbIds |-> Untouched]]

Range(seq) == {seq[i] : i \in 1..Len(seq)}

\* The pool as a value: idle clients, waiting statements (by slot), and the
\* client each slot's statement runs on (0: none).
PoolNow == [idle |-> idle, pending |-> pending, held |-> [s \in Slots |-> inflight[s].conn]]
OpenedIn(P) == Range(P.idle) \cup ({P.held[s] : s \in Slots} \ {0})
IsFull(P) == Cardinality(OpenedIn(P)) >= poolMax
NewClient(P) == CHOOSE c \in Conns \ OpenedIn(P) : \A d \in Conns \ OpenedIn(P) : c <= d

\* pool.connect for the statement of slot s.
Connect(P, s) ==
  IF P.idle # <<>>
  THEN [P EXCEPT !.idle = SubSeq(P.idle, 1, Len(P.idle) - 1), !.held[s] = P.idle[Len(P.idle)]]
  ELSE IF ~IsFull(P)
  THEN [P EXCEPT !.held[s] = NewClient(P)]
  ELSE [P EXCEPT !.pending = Append(P.pending, s)]

\* client.release(): the longest-waiting statement gets the client, else it
\* becomes idle.
Release(P, s) ==
  IF P.pending # <<>>
  THEN [P EXCEPT !.held = [P.held EXCEPT ![s] = 0, ![Head(P.pending)] = P.held[s]],
                 !.pending = Tail(P.pending)]
  ELSE [P EXCEPT !.held[s] = 0, !.idle = Append(P.idle, P.held[s])]

\* client.release(err): the client is closed; the longest-waiting statement
\* gets a new client in the room that leaves.
Remove(P, s) ==
  LET Q == [P EXCEPT !.held[s] = 0]
  IN  IF Q.pending # <<>>
      THEN [Q EXCEPT !.held[Head(Q.pending)] = NewClient(Q), !.pending = Tail(Q.pending)]
      ELSE Q

\* What a statement on client c reads for key k: its own transaction's
\* write if it made one, else the committed row.
View(c, k) ==
  IF conns[c].tx = "open" /\ conns[c].wr[k] # Untouched THEN conns[c].wr[k] ELSE db[k]

\* Another client's open transaction wrote key k.
LockedByOther(c, k) ==
  \E d \in Conns \ {c} : conns[d].tx = "open" /\ conns[d].wr[k] # Untouched

\* An UPDATE waits for the transaction that changed the committed row; a
\* row another transaction inserted and has not committed is not seen.
UpdateWaits(c, k) == LockedByOther(c, k) /\ db[k] # NoRow
\* An INSERT waits for any transaction that wrote the key.
InsertWaits(c, k) == LockedByOther(c, k)

\* The table and the clients after client c writes row at k: into its open
\* transaction, or committed at once when it has none.
DbAfterWrite(c, k, row) ==
  IF conns[c].tx = "open" THEN db ELSE [db EXCEPT ![k] = row]
ConnsAfterWrite(c, k, row) ==
  IF conns[c].tx = "open" THEN [conns EXCEPT ![c].wr[k] = row] ELSE conns

\* COMMIT on client c: the writes of its open transaction become the
\* committed rows; with no transaction open nothing happens.
DbAfterCommit(c) ==
  IF conns[c].tx = "open"
  THEN [k \in ImdbIds |-> IF conns[c].wr[k] # Untouched THEN conns[c].wr[k] ELSE db[k]]
  ELSE db

\* The same for the favorites table: a statement of a favorites handler
\* runs in the transaction open on the client the pool gives it, if any.
FavView(c, k) ==
  IF conns[c].tx = "open" /\ conns[c].fav[k] # Untouched THEN conns[c].fav[k].rows ELSE favorites[k]
FavLockedByOther(c, k) ==
  \E d \in Conns \ {c} : conns[d].tx = "open" /\ conns[d].fav[k] # Untouched
FavInsertWaits(c, k) == FavLockedByOther(c, k)
FavDeleteWaits(c, k) == FavLockedByOther(c, k) /\ favorites[k] # {}
FavAfterWrite(c, k, rows) ==
  IF conns[c].tx = "open" THEN favorites ELSE [favorites EXCEPT ![k] = rows]
ConnsAfterFavWrite(c, k, rows) ==
  IF conns[c].tx = "open" THEN [conns EXCEPT ![c].fav[k] = [rows |-> rows]] ELSE conns
FavAfterCommit(c) ==
  IF conns[c].tx = "open"
  THEN [k \in ImdbIds |-> IF conns[c].fav[k] # Untouched THEN conns[c].fav[k].rows ELSE favorites[k]]
  ELSE favorites

(***************************************************************************)
(* Requests in flight.  pc names the statement the handler awaits next;    *)
(* conn is the client the statement runs on, 0 before it is issued.        *)
(*   route       the handler: "watched" POST /api/watched, "favorite" POST  *)
(*               /api/favorites, "unfavorite" DELETE /api/favorites/:id     *)
(*   before      the committed row of the request's imdb_id on arrival     *)
(*   rollbacks   ROLLBACK statements the request issued                    *)
(*   threw       a statement of the request threw                          *)
(*   begun       the request issued BEGIN                                  *)
(*   committed   a COMMIT the request issued answered                      *)
(*   raced       another request for the same imdb_id was being handled    *)
(*               while this one was                                        *)
(*   clash       another request for the same imdb_id was being handled or *)
(*               arrived since this one arrived                            *)
(***************************************************************************)
NoRequest ==
  Req(Undefined, Undefined, Undefined, Undefined, Undefined, NoToggle, NoOverride, NoOverride,
      Undefined, NoSeasons)

IdleSlot ==
  [ pc |-> "idle", route |-> "none", conn |-> 0, req |-> NoRequest, date |-> 0, existing |-> NoRow,
    result |-> NoRow, code |-> "none", before |-> NoRow, rollbacks |-> 0,
    threw |-> FALSE, raced |-> FALSE, clash |-> FALSE, begun |-> FALSE, committed |-> FALSE ]

Running(sl) == sl.pc \notin {"idle", "done", "hung"}
Answered(sl, code) == [sl EXCEPT !.pc = "done", !.conn = 0, !.code = code]

\* (mutant) the catch block issues no ROLLBACK
CaughtNoRollback(v, sl, flag) ==
  [sl EXCEPT !.pc = IF sl.pc = "rollback" /\ v # "v3" THEN "hung" ELSE "done",
             !.conn = 0, !.threw = TRUE,
             !.code = IF sl.pc = "rollback" /\ v # "v3" THEN sl.code ELSE "500"]

\* The slot after the awaited statement threw: the catch block.
\*   v1  await ROLLBACK, then 500
\*   v2  if tv, await ROLLBACK; then 500
\*   v3  if tv and the flag is unset, try { await ROLLBACK } catch {}; then 500
\* A ROLLBACK that throws is caught in v3 only; in v1 and v2 the handler's
\* promise rejects and no response is sent.
Caught(v, sl, flag) ==
  LET thrown == [sl EXCEPT !.conn = 0, !.threw = TRUE]
      rollsBack == /\ sl.route = "watched"
                   /\ \/ v = "v1"
                      \/ v = "v2" /\ sl.req.media_type = "tv"
                      \/ v = "v3" /\ sl.req.media_type = "tv" /\ ~flag
  IN  IF sl.pc = "rollback"
      THEN IF v = "v3" THEN Answered(thrown, "500") ELSE [thrown EXCEPT !.pc = "hung"]
      ELSE IF rollsBack
           THEN [thrown EXCEPT !.pc = "rollback", !.rollbacks = sl.rollbacks + 1]
           ELSE Answered(thrown, "500")

\* app.locals.rolledBack (v3) after a ROLLBACK of the catch block answered ...
FlagAfterRollback(v, flag) == IF v = "v3" THEN TRUE ELSE flag

\* (mutant) the finally block leaves the flag as it is
FlagAfterFinallyKept(v, sl, flag) == flag

\* ... and after the finally block: if (media_type === 'tv') delete app.locals.rolledBack
FlagAfterFinally(v, sl, flag) ==
  IF v = "v3" /\ sl.route = "watched" /\ sl.req.media_type = "tv" THEN FALSE ELSE flag

\* The flag after a step that leaves the slot as sl: the finally block runs
\* when the handler returns.
FlagAfter(v, sl, flag) == IF sl.pc = "done" THEN FlagAfterFinally(v, sl, flag) ELSE flag

(***************************************************************************)
(* POST /api/watched handled in one piece: no other request runs between   *)
(* its statements and no statement fails.                                  *)
(***************************************************************************)
\* Everything but the size of the pool.
InitData ==
  /\ variant \in Variants
  /\ db = [k \in ImdbIds |-> NoRow]
  /\ clock = 0
  /\ reply = NoReply
  /\ hist = [k \in ImdbIds |-> NoHist]
  /\ conns = [c \in Conns |-> NoTx]
  /\ idle = <<>>
  /\ pending = <<>>
  /\ inflight = [s \in Slots |-> IdleSlot]
  /\ rolledBack = FALSE
  /\ failures = 0
  /\ started = 0
  /\ favorites = [k \in ImdbIds |-> {}]
  /\ favReply = NoReply

\* The pool has a client for every request handled at once.
Init == InitData /\ poolMax = MaxInFlight

\* 400: a required field is missing, or on the tv branch the toggle is incomplete.
PostRejected(req) ==
  /\ MissingRequired(req) \/ (req.media_type = "tv" /\ BadToggle(req))
  /\ reply' = Reply("400", req, NoRow, NoRow, <<>>)
  /\ UNCHANGED <<variant, favVars, db, clock, hist, poolVars>>

\* movie, status 'unwatched': DELETE ... RETURNING *
PostMovieUnwatched(req) ==
  LET k == req.imdb_id IN
  /\ ~MissingRequired(req)
  /\ req.media_type = "movie"
  /\ req.status = "unwatched"
  /\ IF MovieDeleteMatches(db[k])
     THEN /\ db' = [db EXCEPT ![k] = NoRow]
          /\ reply' = Reply("200", req, db[k], db[k], <<"DELETE">>)
     ELSE /\ db' = db
          /\ reply' = Reply(IF variant = "v3" THEN "204" ELSE "200", req, NoRow, db[k], <<"DELETE">>)
  /\ hist' = [hist EXCEPT ![k] = HistAfterOther(@)]
  /\ UNCHANGED <<variant, favVars, clock, poolVars>>

\* movie, any other status: INSERT ... ON CONFLICT (imdb_id) DO UPDATE ... RETURNING *
PostMovieWatched(req) ==
  LET k == req.imdb_id
      row == IF db[k] = NoRow
             THEN MovieInsertRow(variant, req, clock)
             ELSE MovieConflictRow(variant, req, db[k], clock)
  IN
  /\ ~MissingRequired(req)
  /\ req.media_type = "movie"
  /\ req.status # "unwatched"
  /\ db' = [db EXCEPT ![k] = row]
  /\ reply' = Reply("200", req, row, db[k], <<"INSERT">>)
  /\ hist' = [hist EXCEPT ![k] = HistAfterOther(@)]
  /\ UNCHANGED <<variant, favVars, clock, poolVars>>

\* tv: BEGIN, SELECT, UPDATE or INSERT ... RETURNING *, COMMIT
PostTv(req) ==
  LET k == req.imdb_id
      existing == db[k]
      row == IF existing = NoRow
             THEN TvInsertRow(variant, req, existing, clock, clock)
             ELSE TvUpdateRow(variant, req, existing, existing, clock, clock)
  IN
  /\ ~MissingRequired(req)
  /\ req.media_type = "tv"
  /\ ~BadToggle(req)
  /\ db' = [db EXCEPT ![k] = row]
  /\ reply' = Reply("200", req, row, existing,
                    <<"BEGIN", "SELECT", IF existing = NoRow THEN "INSERT" ELSE "UPDATE", "COMMIT">>)
  /\ hist' = [hist EXCEPT ![k] = HistAfterTv(@, req)]
  /\ UNCHANGED <<variant, favVars, clock, poolVars>>

Next ==
  \E req \in StatusRequests :
    \/ PostRejected(req)
    \/ PostMovieUnwatched(req)
    \/ PostMovieWatched(req)
    \/ PostTv(req)

Spec == Init /\ [][Next]_vars

\* POST /api/favorites handled in one piece.
PostFavorite(req) ==
  LET k == req.imdb_id IN
  /\ IF FavoriteInvalid(req)
     THEN /\ favorites' = favorites
          /\ favReply' = [code |-> "400", req |-> req, body |-> NoRow]
     ELSE IF FavoriteInserted(favorites[k], req, clock) # {}
     THEN /\ favorites' = [favorites EXCEPT ![k] = @ \cup FavoriteInserted(@, req, clock)]
          /\ favReply' = [code |-> "201", req |-> req, body |-> FavoriteRow(req, clock)]
     ELSE /\ favorites' = favorites
          /\ favReply' = [code |-> "200", req |-> req, body |-> CHOOSE r \in favorites[k] : TRUE]
  /\ UNCHANGED <<variant, db, clock, reply, hist, poolVars>>

\* DELETE /api/favorites/:imdb_id handled in one piece:
\* DELETE FROM favorites WHERE imdb_id = $1 RETURNING *
DeleteFavorite(k) ==
  /\ IF favorites[k] # {}
     THEN /\ favorites' = [favorites EXCEPT ![k] = {}]
          /\ favReply' = [code |-> "200", req |-> [imdb_id |-> k], body |-> CHOOSE r \in favorites[k] : TRUE]
     ELSE /\ favorites' = favorites
          /\ favReply' = [code |-> "404", req |-> [imdb_id |-> k], body |-> NoRow]
  /\ UNCHANGED <<variant, db, clock, reply, hist, poolVars>>

\* Both tables: every request to /api/watched and to /api/favorites.
NextTables ==
  \/ \E req \in TableRequests :
       \/ PostMovieUnwatched(req)
       \/ PostMovieWatched(req)
       \/ PostTv(req)
  \/ \E req \in FavoriteRequests : PostFavorite(req)
  \/ \E k \in ImdbIds : DeleteFavorite(k)

SpecTables == Init /\ [][NextTables]_vars

NextEpisodes ==
  \E req \in EpisodeRequests :
    \/ PostMovieUnwatched(req)
    \/ PostMovieWatched(req)
    \/ PostTv(req)

SpecEpisodes == Init /\ [][NextEpisodes]_vars

NextKeys == \E req \in KeyRequests : PostTv(req)

SpecKeys == Init /\ [][NextKeys]_vars

NextFields == \E req \in FieldRequests : PostTv(req)

SpecFields == Init /\ [][NextFields]_vars

NextSeasons ==
  \E req \in SeasonRequests :
    \/ PostMovieUnwatched(req)
    \/ PostMovieWatched(req)
    \/ PostTv(req)

SpecSeasons == Init /\ [][NextSeasons]_vars

(***************************************************************************)
(* POST /api/watched, tv branch, statement by statement, with other        *)
(* requests running between the statements.  One step is everything the    *)
(* handler does between two awaits: the awaited statement answers, its     *)
(* client is released, the handler runs on to its next pool.query or to    *)
(* its response.                                                           *)
(***************************************************************************)
MaxRequests == 3
MaxFailures == 1

PoolRequests ==
  { TvRequest("tt1", Undefined, Toggle("1", "1", "true"), NoOverride, NoOverride),
    TvRequest("tt1", Undefined, Toggle("1", "2", "true"), NoOverride, NoOverride),
    TvRequest("tt2", Undefined, Toggle("1", "1", "true"), NoOverride, NoOverride) }

\* The slots and the pool after slot s became sl: released is "ok" when its
\* statement's client goes back to the pool, "error" when it is closed,
\* "none" when the slot held no client; a handler that goes on to another
\* statement asks the pool for a client at once.
SlotsAfter(s, sl, released) ==
  LET P1 == CASE released = "ok" -> Release(PoolNow, s)
              [] released = "error" -> Remove(PoolNow, s)
              [] OTHER -> PoolNow
      P2 == IF Running(sl) THEN Connect(P1, s) ELSE P1
  IN  [ idle |-> P2.idle, pending |-> P2.pending,
        inflight |-> [t \in Slots |->
                        [(IF t = s THEN sl ELSE inflight[t]) EXCEPT !.conn = P2.held[t]]] ]

Step(s, sl, released) ==
  LET after == SlotsAfter(s, sl, released) IN
  /\ idle' = after.idle
  /\ pending' = after.pending
  /\ inflight' = after.inflight

\* The clients after the client of slot s is closed.
ConnsAfterClose(s) == [conns EXCEPT ![inflight[s].conn] = NoTx]

\* A request arrives: validation, then BEGIN is issued.
Arrive(s, req) ==
  LET k == req.imdb_id
      sameKey == {t \in Slots \ {s} : inflight[t].pc # "idle" /\ inflight[t].req.imdb_id = k}
      racing == {t \in sameKey : Running(inflight[t])}
      sl == [IdleSlot EXCEPT !.route = "watched", !.req = req, !.date = clock, !.before = db[k],
                             !.raced = racing # {}, !.clash = racing # {}]
      rejected == MissingRequired(req) \/ BadToggle(req)
      marked == [t \in Slots |->
                   [inflight[t] EXCEPT !.raced = @ \/ (t \in racing /\ ~rejected),
                                       !.clash = @ \/ (t \in sameKey /\ ~rejected)]]
      next == IF rejected THEN Answered(sl, "400") ELSE [sl EXCEPT !.pc = "begin", !.begun = TRUE]
      after == SlotsAfter(s, next, "none")
  IN
  /\ inflight[s].pc = "idle"
  /\ started < MaxRequests
  /\ req.media_type = "tv"
  /\ started' = started + 1
  /\ idle' = after.idle
  /\ pending' = after.pending
  /\ inflight' = [t \in Slots |-> IF t = s THEN after.inflight[t]
                                  ELSE [marked[t] EXCEPT !.conn = after.inflight[t].conn]]
  /\ rolledBack' = FlagAfter(variant, next, rolledBack)
  /\ UNCHANGED <<variant, favVars, db, clock, reply, hist, conns, poolMax, failures>>

\* BEGIN answers: the client has a transaction open (one already open stays).
BeginDone(s) ==
  LET sl == inflight[s]
      c == sl.conn
  IN
  /\ sl.pc = "begin" /\ c # 0
  /\ conns' = [conns EXCEPT ![c].tx = "open"]
  /\ Step(s, [sl EXCEPT !.pc = "select"], "ok")
  /\ UNCHANGED <<variant, favVars, db, clock, reply, hist, poolMax, rolledBack, failures, started>>

\* SELECT * FROM watched_progress WHERE imdb_id = $1 answers; the handler
\* computes the values to save and issues UPDATE or INSERT.
SelectDone(s) ==
  LET sl == inflight[s]
      c == sl.conn
  IN
  /\ sl.pc = "select" /\ c # 0
  /\ Step(s, [sl EXCEPT !.pc = "write", !.existing = View(c, sl.req.imdb_id)], "ok")
  /\ UNCHANGED <<variant, favVars, db, clock, reply, hist, conns, poolMax, rolledBack, failures, started>>

\* UPDATE ... RETURNING * (the SELECT found a row) or INSERT ... RETURNING *
\* answers.  An INSERT of a key that has a row fails on the unique key.
WriteDone(s) ==
  LET sl == inflight[s]
      c == sl.conn
      k == sl.req.imdb_id
      updates == sl.existing # NoRow
      visible == View(c, k)
      row == IF updates
             THEN TvUpdateRow(variant, sl.req, sl.existing, visible, sl.date, clock)
             ELSE TvInsertRow(variant, sl.req, sl.existing, sl.date, clock)
  IN
  /\ sl.pc = "write" /\ c # 0
  /\ IF updates THEN ~UpdateWaits(c, k) ELSE ~InsertWaits(c, k)
  /\ IF updates /\ visible = NoRow
     THEN /\ Step(s, [sl EXCEPT !.pc = "commit", !.result = NoRow], "ok")
          /\ UNCHANGED <<db, conns, rolledBack>>
     ELSE IF ~updates /\ visible # NoRow
     THEN /\ Step(s, Caught(variant, sl, rolledBack), "error")
          /\ rolledBack' = FlagAfter(variant, Caught(variant, sl, rolledBack), rolledBack)
          /\ conns' = ConnsAfterClose(s)
          /\ db' = db
     ELSE /\ Step(s, [sl EXCEPT !.pc = "commit", !.result = row], "ok")
          /\ db' = DbAfterWrite(c, k, row)
          /\ conns' = ConnsAfterWrite(c, k, row)
          /\ rolledBack' = rolledBack
  /\ UNCHANGED <<variant, favVars, clock, reply, hist, poolMax, failures, started>>

\* COMMIT answers; the handler responds with the row the write returned, or
\* (v2, v3) reads the row again when the write returned none.
CommitDone(s) ==
  LET sl == inflight[s]
      c == sl.conn
      ended == [sl EXCEPT !.committed = TRUE]
      next == IF sl.result # NoRow THEN Answered(ended, "200")
              ELSE IF variant = "v1" THEN Answered(ended, "500")
              ELSE [ended EXCEPT !.pc = "reread"]
  IN
  /\ sl.pc = "commit" /\ c # 0
  /\ db' = DbAfterCommit(c)
  /\ favorites' = FavAfterCommit(c)
  /\ conns' = [conns EXCEPT ![c] = NoTx]
  /\ Step(s, next, "ok")
  /\ rolledBack' = FlagAfter(variant, next, rolledBack)
  /\ UNCHANGED <<variant, favReply, clock, reply, hist, poolMax, failures, started>>

\* The fallback SELECT answers: 200 with the row found, else 500.
RereadDone(s) ==
  LET sl == inflight[s]
      c == sl.conn
      row == View(c, sl.req.imdb_id)
      next == IF row # NoRow THEN Answered([sl EXCEPT !.result = row], "200")
              ELSE Answered(sl, "500")
  IN
  /\ sl.pc = "reread" /\ c # 0
  /\ Step(s, next, "ok")
  /\ rolledBack' = FlagAfter(variant, next, rolledBack)
  /\ UNCHANGED <<variant, favVars, db, clock, reply, hist, conns, poolMax, failures, started>>

\* ROLLBACK answers: the transaction open on its client, if any, is
\* discarded; the handler responds 500.  v3 sets app.locals.rolledBack,
\* responds, and runs its finally block, without an await in between.
RollbackDone(s) ==
  LET sl == inflight[s]
      c == sl.conn
  IN
  /\ sl.pc = "rollback" /\ c # 0
  /\ conns' = [conns EXCEPT ![c] = NoTx]
  /\ rolledBack' = FlagAfter(variant, Answered(sl, "500"), FlagAfterRollback(variant, rolledBack))
  /\ Step(s, Answered(sl, "500"), "ok")
  /\ UNCHANGED <<variant, favVars, db, clock, reply, hist, poolMax, failures, started>>

\* The statement in flight fails (the server rejects it or the connection
\* breaks): it changes nothing, its client is closed, the handler's catch
\* block runs.
StatementFails(s) ==
  LET sl == inflight[s] IN
  /\ Running(sl) /\ sl.conn # 0
  /\ failures < MaxFailures
  /\ failures' = failures + 1
  /\ conns' = ConnsAfterClose(s)
  /\ Step(s, Caught(variant, sl, rolledBack), "error")
  /\ rolledBack' = FlagAfter(variant, Caught(variant, sl, rolledBack), rolledBack)
  /\ UNCHANGED <<variant, favVars, db, clock, reply, hist, poolMax, started>>

\* The response has been delivered (or the handler's promise rejected): the
\* slot is free for another request.
Retire(s) ==
  /\ inflight[s].pc \in {"done", "hung"}
  /\ inflight' = [inflight EXCEPT ![s] = IdleSlot]
  /\ UNCHANGED <<variant, favVars, db, clock, reply, hist, conns, idle, pending, poolMax, rolledBack,
                 failures, started>>

NextPool ==
  \E s \in Slots :
    \/ \E req \in PoolRequests : Arrive(s, req)
    \/ BeginDone(s)
    \/ SelectDone(s)
    \/ WriteDone(s)
    \/ CommitDone(s)
    \/ RereadDone(s)
    \/ RollbackDone(s)
    \/ StatementFails(s)
    \/ Retire(s)

\* new Pool({connectionString, ssl}) sets no max: the pool opens up to the
\* driver's default number of clients.  Requests may overlap in greater
\* number than that, or not: both cases are kept, as a pool with fewer
\* clients than slots and a pool with one per slot.
InitPool == InitData /\ poolMax \in 1..MaxInFlight

SpecPool == InitPool /\ [][NextPool]_vars

\* The pool is consistent: no statement waits while a client is idle, no
\* client runs two statements, an idle client runs none, a waiting slot
\* holds no client, and the pool never exceeds its maximum.
PoolConsistent ==
  /\ pending # <<>> => idle = <<>>
  /\ \A s, t \in Slots : s # t /\ inflight[s].conn # 0 => inflight[s].conn # inflight[t].conn
  /\ \A s \in Slots : inflight[s].conn \notin Range(idle)
  /\ \A s \in Slots : inflight[s].conn # 0 => Running(inflight[s]) /\ s \notin Range(pending)
  /\ \A s \in Slots : Running(inflight[s]) => inflight[s].conn # 0 \/ s \in Range(pending)
  /\ Cardinality(OpenedIn(PoolNow)) <= poolMax
  /\ \A c \in Conns \ OpenedIn(PoolNow) : conns[c] = NoTx
  /\ rolledBack = FALSE

(***************************************************************************)
(* POST /api/favorites and DELETE /api/favorites/:imdb_id, statement by    *)
(* statement, with other requests running between the statements.  For a   *)
(* POST slot, existing is the set of rows its INSERT conflicted with,       *)
(* clash tells that a DELETE for its imdb_id was being handled while it     *)
(* was, and raced that such a DELETE removed a row between its INSERT and   *)
(* its SELECT.                                                             *)
(***************************************************************************)
MaxFavRequests == 4

FavPoolRequests ==
  { [imdb_id |-> "tt1", title |-> "X", poster_url |-> Undefined, media_type |-> "tv"],
    [imdb_id |-> "tt1", title |-> "Y", poster_url |-> "p", media_type |-> "movie"],
    [imdb_id |-> "tt2", title |-> "X", poster_url |-> Undefined, media_type |-> "tv"],
    [imdb_id |-> "tt2", title |-> "X", poster_url |-> Undefined, media_type |-> "book"] }

\* The DELETE requests for imdb_id k in flight, but for slot s.
DeletesInFlight(s, k) ==
  {t \in Slots \ {s} : inflight[t].route = "unfavorite" /\ Running(inflight[t])
                        /\ inflight[t].req.imdb_id = k}
\* The POST requests for imdb_id k in flight, but for slot s.
PostsInFlight(s, k) ==
  {t \in Slots \ {s} : inflight[t].route = "favorite" /\ Running(inflight[t])
                        /\ inflight[t].req.imdb_id = k}

\* POST /api/favorites arrives: validation, then the INSERT is issued.
FavArrive(s, req) ==
  LET sl == [IdleSlot EXCEPT !.route = "favorite", !.req = req, !.date = clock,
                             !.existing = {},
                             !.clash = ~FavoriteInvalid(req) /\ DeletesInFlight(s, req.imdb_id) # {}]
      after == SlotsAfter(s, IF FavoriteInvalid(req) THEN Answered(sl, "400")
                             ELSE [sl EXCEPT !.pc = "fav_insert"], "none")
  IN
  /\ inflight[s].pc = "idle"
  /\ started < MaxFavRequests
  /\ started' = started + 1
  /\ idle' = after.idle
  /\ pending' = after.pending
  /\ inflight' = after.inflight
  /\ UNCHANGED <<variant, favVars, db, clock, reply, hist, conns, poolMax, rolledBack, failures>>

\* DELETE /api/favorites/:imdb_id arrives: the DELETE is issued.
UnfavArrive(s, k) ==
  LET sl == [IdleSlot EXCEPT !.route = "unfavorite", !.req = [imdb_id |-> k], !.date = clock,
                             !.pc = "fav_delete"]
      after == SlotsAfter(s, sl, "none")
  IN
  /\ inflight[s].pc = "idle"
  /\ started < MaxFavRequests
  /\ started' = started + 1
  /\ idle' = after.idle
  /\ pending' = after.pending
  /\ inflight' = [t \in Slots |->
                    [after.inflight[t] EXCEPT !.clash = @ \/ t \in PostsInFlight(s, k)]]
  /\ UNCHANGED <<variant, favVars, db, clock, reply, hist, conns, poolMax, rolledBack, failures>>

\* INSERT ... ON CONFLICT (imdb_id) DO NOTHING RETURNING * answers: 201
\* with the row it returned, else the handler issues the SELECT.
FavInsertDone(s) ==
  LET sl == inflight[s]
      c == sl.conn
      k == sl.req.imdb_id
      rows == FavView(c, k)
      added == FavoriteInserted(rows, sl.req, clock)
  IN
  /\ sl.pc = "fav_insert" /\ c # 0
  /\ ~FavInsertWaits(c, k)
  /\ favorites' = FavAfterWrite(c, k, rows \cup added)
  /\ conns' = ConnsAfterFavWrite(c, k, rows \cup added)
  /\ Step(s, IF added # {}
             THEN Answered([sl EXCEPT !.result = CHOOSE r \in added : TRUE], "201")
             ELSE [sl EXCEPT !.pc = "fav_select", !.existing = rows], "ok")
  /\ UNCHANGED <<variant, favReply, db, clock, reply, hist, poolMax, rolledBack, failures, started>>

\* SELECT * FROM favorites WHERE imdb_id = $1 answers: 200 with the row
\* found, 409 when there is none.
FavSelectDone(s) ==
  LET sl == inflight[s]
      c == sl.conn
      rows == FavView(c, sl.req.imdb_id)
  IN
  /\ sl.pc = "fav_select" /\ c # 0
  /\ Step(s, IF rows # {}
             THEN Answered([sl EXCEPT !.result = CHOOSE r \in rows : TRUE], "200")
             ELSE Answered(sl, "409"), "ok")
  /\ UNCHANGED <<variant, favVars, db, clock, reply, hist, conns, poolMax, rolledBack, failures, started>>

\* DELETE FROM favorites WHERE imdb_id = $1 RETURNING * answers: 200 with
\* the row removed, 404 when rowCount is 0.
FavDeleteDone(s) ==
  LET sl == inflight[s]
      c == sl.conn
      k == sl.req.imdb_id
      rows == FavView(c, k)
      after == SlotsAfter(s, IF rows # {}
                             THEN Answered([sl EXCEPT !.result = CHOOSE r \in rows : TRUE], "200")
                             ELSE Answered(sl, "404"), "ok")
      reading == {t \in PostsInFlight(s, k) : inflight[t].pc = "fav_select"}
  IN
  /\ sl.pc = "fav_delete" /\ c # 0
  /\ ~FavDeleteWaits(c, k)
  /\ favorites' = FavAfterWrite(c, k, {})
  /\ conns' = ConnsAfterFavWrite(c, k, {})
  /\ idle' = after.idle
  /\ pending' = after.pending
  /\ inflight' = [t \in Slots |->
                    [after.inflight[t] EXCEPT !.raced = @ \/ (t \in reading /\ rows # {})]]
  /\ UNCHANGED <<variant, favReply, db, clock, reply, hist, poolMax, rolledBack, failures, started>>

\* Requests to /api/favorites only, overlapping.
NextFav ==
  \E s \in Slots :
    \/ \E req \in FavPoolRequests : FavArrive(s, req)
    \/ \E k \in ImdbIds : UnfavArrive(s, k)
    \/ FavInsertDone(s)
    \/ FavSelectDone(s)
    \/ FavDeleteDone(s)
    \/ StatementFails(s)
    \/ Retire(s)

SpecFav == InitPool /\ [][NextFav]_vars

(***************************************************************************)
(* Both routes on the one pool: a tv POST /api/watched and requests to     *)
(* /api/favorites for the same imdb_id, overlapping.                       *)
(***************************************************************************)
SharedWatchedRequests ==
  { TvRequest("tt1", Undefined, Toggle("1", "1", "true"), NoOverride, NoOverride) }
SharedFavRequests ==
  { [imdb_id |-> "tt1", title |-> "X", poster_url |-> Undefined, media_type |-> "tv"] }

NextShared ==
  \E s \in Slots :
    \/ \E req \in SharedWatchedRequests : Arrive(s, req)
    \/ BeginDone(s)
    \/ SelectDone(s)
    \/ WriteDone(s)
    \/ CommitDone(s)
    \/ RereadDone(s)
    \/ RollbackDone(s)
    \/ \E req \in SharedFavRequests : FavArrive(s, req)
    \/ UnfavArrive(s, "tt1")
    \/ FavInsertDone(s)
    \/ FavSelectDone(s)
    \/ FavDeleteDone(s)
    \/ StatementFails(s)
    \/ Retire(s)

SpecShared == InitPool /\ [][NextShared]_vars

(***************************************************************************)
(* Properties.                                                             *)
(***************************************************************************)
HasRow(k) == db[k] # NoRow
IsTvRow(k) == HasRow(k) /\ db[k].media_type = "tv"
WatchedKeys(k) == Keys(MapOrEmpty(db[k].watched_episodes))

\* The last request was a tv POST answered 200.
TvHandled == reply.code = "200" /\ reply.req.media_type = "tv"

\* C2 (as claimed): after each tv POST of a sequence of tv POSTs to one
\* title, the keys of watched_episodes are the episodes whose most recent
\* toggle was watched.
C2_KeysAreToggledOn ==
  \A k \in ImdbIds : (hist[k].tvOnly /\ HasRow(k)) => WatchedKeys(k) = hist[k].on

\* C2 (amended): the same, for the sequences in which no POST carries a
\* watched_episodes property that the handler reads (v3 reads it, v1 and v2
\* do not).
C2_KeysAreToggledOnWithoutOverride ==
  \A k \in ImdbIds :
    (hist[k].tvOnly /\ HasRow(k) /\ ~(variant = "v3" /\ hist[k].mapOverride))
      => WatchedKeys(k) = hist[k].on

\* An episode was toggled off while another one stays on.
C2_Witness ==
  /\ TvHandled
  /\ reply.req.watched_episode.given
  /\ ~Truthy(reply.req.watched_episode.watched)
  /\ LET k == reply.req.imdb_id
     IN  /\ hist[k].tvOnly /\ ~hist[k].mapOverride
         /\ reply.before # NoRow
         /\ EpKey(reply.req.watched_episode.season, reply.req.watched_episode.episode)
              \in Keys(MapOrEmpty(reply.before.watched_episodes))
         /\ hist[k].on # {}

\* C7: in v3 a tv POST with watched_episodes: {} and last_watched_episode:
\* null stores an empty map and a null last_watched_episode whatever the row
\* held, and a toggle in the same body is applied to the emptied map: a
\* watched toggle leaves exactly its key and last_watched_episode on it.
C7_ResetThenToggle ==
  (/\ variant = "v3"
   /\ TvHandled
   /\ reply.req.watched_episodes = Override(JObj(EmptyMap))
   /\ reply.req.last_watched_episode = Override(JNull))
  => LET row == db[reply.req.imdb_id]
         we == reply.req.watched_episode
     IN  IF we.given /\ Truthy(we.watched)
         THEN /\ row.watched_episodes = JObj({<<EpKey(we.season, we.episode), "true">>})
              /\ row.last_watched_episode # JNull
              /\ row.last_watched_episode.obj.season = ParseInt(we.season)
              /\ row.last_watched_episode.obj.episode = ParseInt(we.episode)
         ELSE /\ row.watched_episodes = JObj(EmptyMap)
              /\ row.last_watched_episode = JNull

\* A reset with a watched toggle, on a row that held another episode and a
\* last_watched_episode.
C7_Witness ==
  /\ variant = "v3"
  /\ TvHandled
  /\ reply.req.watched_episodes = Override(JObj(EmptyMap))
  /\ reply.req.last_watched_episode = Override(JNull)
  /\ reply.req.watched_episode.given
  /\ Truthy(reply.req.watched_episode.watched)
  /\ reply.before # NoRow
  /\ reply.before.last_watched_episode # JNull
  /\ \E p \in MapOrEmpty(reply.before.watched_episodes) :
       p[1] # EpKey(reply.req.watched_episode.season, reply.req.watched_episode.episode)

\* C10 (as claimed): a non-null last_watched_episode of a tv row has the
\* season and episode of the most recent watched toggle for the title.
LastIsLastOn(k) ==
  /\ hist[k].lastOn # JNull
  /\ db[k].last_watched_episode.obj.season = hist[k].lastOn.obj.season
  /\ db[k].last_watched_episode.obj.episode = hist[k].lastOn.obj.episode

C10_LastIsMostRecentToggle ==
  \A k \in ImdbIds :
    (IsTvRow(k) /\ db[k].last_watched_episode # JNull) => LastIsLastOn(k)

\* C10 (amended): the same, unless a request carried a non-null
\* last_watched_episode that v3 read and no watched toggle came with or
\* after it.
C10_LastIsMostRecentToggleWithoutOverride ==
  \A k \in ImdbIds :
    (/\ IsTvRow(k)
     /\ db[k].last_watched_episode # JNull
     /\ ~(variant = "v3" /\ hist[k].lastOverride))
      => LastIsLastOn(k)

\* Two episodes are on and last_watched_episode is the later one.
C10_Witness ==
  \E k \in ImdbIds :
    /\ IsTvRow(k)
    /\ db[k].last_watched_episode # JNull
    /\ ~hist[k].lastOverride
    /\ Cardinality(hist[k].on) >= 2
    /\ TvHandled
    /\ reply.req.watched_episode.given /\ Truthy(reply.req.watched_episode.watched)
    /\ reply.before # NoRow
    /\ reply.before.last_watched_episode # JNull
    /\ reply.before.last_watched_episode.obj.episode # db[k].last_watched_episode.obj.episode

\* C8 (as claimed): every row whose media_type is tv has a status of the
\* enumerated set.
C8_TvStatusEnumerated ==
  \A k \in ImdbIds : IsTvRow(k) => db[k].status \in ValidTvStatuses

\* C9 (as claimed): the status a tv POST stores is the request's if that is
\* of the enumerated set, else the existing row's if that is, else watching
\* (v2 and v3, which store a status).
ClaimedStatus(req, before) ==
  IF req.status \in ValidTvStatuses THEN req.status
  ELSE IF before # NoRow /\ before.status \in ValidTvStatuses THEN before.status
  ELSE "watching"

C9_StatusFromRequestThenRowThenDefault ==
  (TvHandled /\ variant \in {"v2", "v3"})
    => db[reply.req.imdb_id].status = ClaimedStatus(reply.req, reply.before)

(***************************************************************************)
(* Properties of single toggles (SpecEpisodes).                            *)
(***************************************************************************)
\* A tv POST with a watched / an unwatched toggle.
TogglesOn(req) == req.media_type = "tv" /\ req.watched_episode.given /\ Truthy(req.watched_episode.watched)
TogglesOff(req) == req.media_type = "tv" /\ req.watched_episode.given /\ ~Truthy(req.watched_episode.watched)
\* The season and episode a last_watched_episode value names, timestamp aside.
Names(last) == IF last = JNull THEN JNull ELSE JObj([season |-> last.obj.season, episode |-> last.obj.episode])
\* last_watched_episode names the season and episode of the request's toggle.
NamesToggle(last, req) ==
  /\ last # JNull
  /\ StrictEqNum(last.obj.season, ParseInt(req.watched_episode.season))
  /\ StrictEqNum(last.obj.episode, ParseInt(req.watched_episode.episode))
\* The key of the request's toggle is in map m.
ToggledKeyIn(req, m) ==
  EpKey(req.watched_episode.season, req.watched_episode.episode) \in Keys(m)
\* The map and last_watched_episode of a row, {} and null when there is none.
MapOf(row) == IF row = NoRow THEN EmptyMap ELSE MapOrEmpty(row.watched_episodes)
LastOf(row) == IF row = NoRow THEN JNull ELSE row.last_watched_episode
\* The request carries watched_episodes or last_watched_episode and the
\* handler reads them.
ReadsOverride(req) ==
  variant = "v3" /\ (req.watched_episodes.has \/ req.last_watched_episode.has)

\* C11: the same tv POST with a watched toggle handled twice in a row leaves
\* watched_episodes and the season and episode of last_watched_episode as
\* the first handling left them.
C11_SameToggleTwice ==
  [][ ( /\ TvHandled /\ TogglesOn(reply.req)
        /\ reply'.req = reply.req /\ reply'.code = "200" )
      => LET k == reply.req.imdb_id
         IN  /\ db'[k].watched_episodes = db[k].watched_episodes
             /\ Names(db'[k].last_watched_episode) = Names(db[k].last_watched_episode) ]_vars

\* A watched toggle was applied to a row that already held its key, another
\* key besides, and a last_watched_episode naming the toggled episode.
C11_Witness ==
  /\ TvHandled /\ TogglesOn(reply.req)
  /\ reply.before # NoRow
  /\ ToggledKeyIn(reply.req, MapOf(reply.before))
  /\ Cardinality(MapOf(reply.before)) >= 2
  /\ NamesToggle(LastOf(reply.before), reply.req)
  /\ db[reply.req.imdb_id].watched_episodes = reply.before.watched_episodes

\* C12 (as claimed): a tv POST with an unwatched toggle for an episode whose
\* key is not in watched_episodes leaves the map as it was and sets
\* last_watched_episode to null exactly when it named that episode.
C12_UnwatchedAbsentKey ==
  ( /\ TvHandled /\ TogglesOff(reply.req)
    /\ ~ToggledKeyIn(reply.req, MapOf(reply.before)) )
  => LET row == db[reply.req.imdb_id]
     IN  /\ MapOf(row) = MapOf(reply.before)
         /\ row.last_watched_episode =
              (IF NamesToggle(LastOf(reply.before), reply.req) THEN JNull ELSE LastOf(reply.before))

\* C12 (amended): the same for a request whose watched_episodes and
\* last_watched_episode properties, if any, the handler does not read (v1
\* and v2 never do, v3 reads them before the toggle).
C12_UnwatchedAbsentKeyWithoutOverride ==
  ( /\ TvHandled /\ TogglesOff(reply.req)
    /\ ~ReadsOverride(reply.req)
    /\ ~ToggledKeyIn(reply.req, MapOf(reply.before)) )
  => LET row == db[reply.req.imdb_id]
     IN  /\ MapOf(row) = MapOf(reply.before)
         /\ row.last_watched_episode =
              (IF NamesToggle(LastOf(reply.before), reply.req) THEN JNull ELSE LastOf(reply.before))

\* An unwatched toggle for a key that is not in a non-empty map, on a row
\* whose last_watched_episode names another episode.
C12_Witness ==
  /\ TvHandled /\ TogglesOff(reply.req)
  /\ ~ReadsOverride(reply.req)
  /\ reply.before # NoRow
  /\ MapOf(reply.before) # EmptyMap
  /\ ~ToggledKeyIn(reply.req, MapOf(reply.before))
  /\ LastOf(reply.before) # JNull
  /\ ~NamesToggle(LastOf(reply.before), reply.req)

\* The request handled after a watched toggle is an unwatched toggle of the
\* same episode of the same title.
TogglesBackOff(first, second) ==
  /\ TogglesOn(first) /\ TogglesOff(second)
  /\ second.imdb_id = first.imdb_id
  /\ second.watched_episode.season = first.watched_episode.season
  /\ second.watched_episode.episode = first.watched_episode.episode

LastAfterToggleOff ==
  LET before == LastOf(reply.before)
  IN  db[reply.req.imdb_id].last_watched_episode =
        (IF NamesToggle(before, reply.req) THEN JNull ELSE before)

\* C27 (as claimed): an unwatched toggle of the episode last_watched_episode
\* names makes it null, whatever else is in watched_episodes; an unwatched
\* toggle of another episode leaves it unchanged.
C27_ToggleOffClearsLast ==
  (TvHandled /\ TogglesOff(reply.req)) => LastAfterToggleOff

\* C27 (amended): the same for a request without a last_watched_episode
\* property; in v3 such a property replaces the row's value before the
\* toggle is applied.
C27_ToggleOffClearsLastWithoutOverride ==
  ( /\ TvHandled /\ TogglesOff(reply.req)
    /\ ~(variant = "v3" /\ reply.req.last_watched_episode.has) )
    => LastAfterToggleOff

\* The episode last_watched_episode named was toggled off by a request
\* without overrides while an episode watched earlier stays in the map:
\* last_watched_episode is null.
C27_Witness ==
  /\ TvHandled /\ TogglesOff(reply.req)
  /\ ~reply.req.last_watched_episode.has /\ ~reply.req.watched_episodes.has
  /\ NamesToggle(LastOf(reply.before), reply.req)
  /\ hist[reply.req.imdb_id].on # {}
  /\ Keys(MapOf(db[reply.req.imdb_id])) # {}
  /\ db[reply.req.imdb_id].last_watched_episode = JNull

(***************************************************************************)
(* Properties of episodes_in_season (SpecSeasons).                         *)
(***************************************************************************)
\* episodes_in_season of a row, {} when there is no row or the column is null.
SeasonsOf(row) == IF row = NoRow THEN EmptyMap ELSE MapOrEmpty(row.episodes_in_season)
\* The season counts a request names.
NamedSeasons(req) == IF req.episodes_in_season.given THEN req.episodes_in_season.obj ELSE EmptyMap
\* !isNaN(parseInt(count, 10))
ValidCount(c) == ParseInt(c) # NaN
\* What the handler stores for a count: v1 the value as sent, v2 and v3 the
\* number parseInt reads.
StoredCount(c) == IF variant = "v1" THEN c ELSE ParseInt(c)
NonNegativeInteger(c) == c \in {"0", "1", "2", "3"}

\* The step handles a tv POST for k: unnamed seasons keep their value, named
\* seasons with a valid count take it, nothing else changes.
MergesSeasons(k) ==
  LET old == SeasonsOf(db[k])
      new == SeasonsOf(db'[k])
      named == NamedSeasons(reply'.req)
  IN  /\ \A p \in old : p[1] \notin Keys(named) => p \in new
      /\ \A q \in named : ValidCount(q[2]) => <<q[1], StoredCount(q[2])>> \in new
      /\ \A p \in new : p \in old \/ p[1] \in Keys(named)

C15_SeasonCountsNonNegative ==
  \A k \in ImdbIds : IsTvRow(k) => \A p \in SeasonsOf(db[k]) : NonNegativeInteger(p[2])

(***************************************************************************)
(* Properties of the movie branch and of whole rows (Spec).                *)
(***************************************************************************)
\* GET /api/watched/:imdb_id: the row, or {} when there is none.
EmptyObject == [empty |-> TRUE]
GetWatchedById(k) ==
  IF db[k] # NoRow THEN [code |-> "200", body |-> db[k]]
                   ELSE [code |-> "200", body |-> EmptyObject]

\* The last request was a movie POST with status unwatched that passed validation.
MovieUnwatchedHandled ==
  /\ reply.code # "none"
  /\ ~MissingRequired(reply.req)
  /\ reply.req.media_type = "movie"
  /\ reply.req.status = "unwatched"

MovieWatchedHandled ==
  /\ reply.code = "200"
  /\ reply.req.media_type = "movie"
  /\ reply.req.status # "unwatched"

\* C18 (as claimed): a movie POST whose status is not unwatched leaves a row
\* with the request's title and poster_url and with the request's status
\* when one is given, watched when it is omitted; on an existing row the
\* columns other than title, poster_url, status and last_interaction_date
\* keep their values.
C18_MovieUpsertStoresRequest ==
  MovieWatchedHandled =>
    LET k == reply.req.imdb_id
        before == reply.before
    IN  /\ HasRow(k)
        /\ db[k].title = reply.req.title
        /\ db[k].poster_url = ToParam(reply.req.poster_url)
        /\ db[k].status = (IF reply.req.status = Undefined THEN "watched" ELSE reply.req.status)
        /\ before # NoRow =>
              /\ db[k].media_type = before.media_type
              /\ db[k].watched_episodes = before.watched_episodes
              /\ db[k].total_seasons = before.total_seasons
              /\ db[k].episodes_in_season = before.episodes_in_season
              /\ db[k].last_watched_episode = before.last_watched_episode

\* C19: once a row with media_type tv exists for an imdb_id, no request
\* to /api/watched or to /api/favorites deletes it or changes its
\* media_type, so a row for the imdb_id exists in every later state.
C19_TvRowStays ==
  [][ \A k \in ImdbIds : IsTvRow(k) => IsTvRow(k)' ]_vars

\* A movie POST with status unwatched was answered for a title that holds
\* a tv row, and a favorite of the same title has been removed.
C19_Witness ==
  /\ MovieUnwatchedHandled
  /\ reply.before # NoRow
  /\ reply.before.media_type = "tv"
  /\ IsTvRow(reply.req.imdb_id)
  /\ favReply.code = "200"
  /\ favReply.req = [imdb_id |-> reply.req.imdb_id]

\* The request lacks imdb_id, media_type or title, or its media_type is
\* neither movie nor tv.
LacksRequired(req) ==
  \/ req.imdb_id = Undefined \/ req.media_type = Undefined \/ req.title = Undefined
  \/ req.media_type \notin {"movie", "tv"}

\* watched_episode is present and lacks season, episode or watched.
IncompleteToggle(req) ==
  /\ req.watched_episode.given
  /\ Undefined \in {req.watched_episode.season, req.watched_episode.episode, req.watched_episode.watched}

\* This step answers 400, changes no row and issues no statement.
RejectedUntouched ==
  /\ reply'.code = "400"
  /\ db' = db
  /\ reply'.sql = <<>>

\* C20 (as claimed): a POST that lacks a required field, names another
\* media_type than movie and tv, or carries an incomplete watched_episode
\* is answered 400, changes no row and issues no BEGIN.
C20_InvalidRejected ==
  [][ (reply'.code # "none" /\ (LacksRequired(reply'.req) \/ IncompleteToggle(reply'.req)))
        => RejectedUntouched ]_vars

\* C20 (amended): the same for a POST that lacks a required field or names
\* another media_type, and for a tv POST with an incomplete
\* watched_episode; a movie POST is handled whatever its watched_episode.
C20_InvalidRejectedToggleOnTv ==
  [][ /\ ( /\ reply'.code # "none"
           /\ \/ LacksRequired(reply'.req)
              \/ (reply'.req.media_type = "tv" /\ IncompleteToggle(reply'.req)) )
        => RejectedUntouched
      /\ ( /\ reply'.code # "none"
           /\ ~LacksRequired(reply'.req)
           /\ reply'.req.media_type = "movie" )
        => /\ reply'.code \in {"200", "204"}
           /\ reply'.sql \in {<<"DELETE">>, <<"INSERT">>} ]_vars

\* A tv POST with an incomplete watched_episode was answered 400 while the
\* title has a row.
C20_Witness ==
  /\ reply.code = "400"
  /\ reply.req.media_type = "tv"
  /\ IncompleteToggle(reply.req)
  /\ HasRow(reply.req.imdb_id)

(***************************************************************************)
(* Properties of poster_url and total_seasons (SpecFields).                *)
(***************************************************************************)
\* C25 (as claimed): a tv POST stores the request's poster_url when it is
\* given and the request's total_seasons when it is a number; for each of
\* the two that is omitted (or a total_seasons that is no number) it keeps
\* the existing row's value, and stores null when there is no row.
C25_OmittedFieldsKeepRow ==
  TvHandled =>
    LET req == reply.req
        row == db[req.imdb_id]
        before == reply.before
        numeric == req.total_seasons # Undefined /\ ParseInt(req.total_seasons) # NaN
    IN  /\ row.poster_url =
             (IF req.poster_url # Undefined THEN req.poster_url
              ELSE IF before # NoRow THEN before.poster_url ELSE Null)
        /\ row.total_seasons =
             (IF numeric THEN ParseInt(req.total_seasons)
              ELSE IF before # NoRow THEN before.total_seasons ELSE Null)

(***************************************************************************)
(* Properties of the keys of watched_episodes (SpecKeys).                  *)
(***************************************************************************)
\* S<season>E<episode> with season and episode integers written without
\* prefix.
IntegerNames == {"0", "1", "2", "3"}
WellFormedKey(key) == \E sn \in IntegerNames, e \in IntegerNames : key = EpKey(sn, e)

\* C26 (as claimed): in every tv row every key of watched_episodes has the
\* form S<season>E<episode> with integer season and episode, and maps to
\* true.
C26_EpisodeKeysWellFormed ==
  \A k \in ImdbIds :
    IsTvRow(k) =>
      \A p \in MapOrEmpty(db[k].watched_episodes) : WellFormedKey(p[1]) /\ p[2] = "true"

(***************************************************************************)
(* Properties of the favorites handlers (SpecFav).                         *)
(***************************************************************************)
\* In this step the INSERT of slot s returned a row (201) ...
FavCreates(s) == inflight[s].pc = "fav_insert" /\ inflight'[s].code = "201"
\* ... or hit a row and returned none,
FavConflicts(s) == inflight[s].pc = "fav_insert" /\ inflight'[s].pc = "fav_select"
\* and in this step the follow-up SELECT of slot s answered.
FavRereads(s) ==
  inflight[s].pc = "fav_select" /\ inflight'[s].pc = "done" /\ ~inflight'[s].threw

\* At most one row per imdb_id after the step; the request answered 201
\* found no row and left the one it returns; an INSERT that hits a row
\* changes nothing.
FavOneRowPerId ==
  /\ \A k \in ImdbIds : Cardinality(favorites'[k]) <= 1
  /\ \A s \in Slots :
       LET k == inflight[s].req.imdb_id IN
       /\ (inflight'[s].code = "201" /\ inflight[s].code # "201") => FavCreates(s)
       /\ FavCreates(s) => favorites[k] = {} /\ favorites'[k] = {inflight'[s].result}
       /\ FavConflicts(s) => favorites[k] # {} /\ favorites' = favorites

FavDeletes(s) ==
  inflight[s].pc = "fav_delete" /\ inflight'[s].pc = "done" /\ ~inflight'[s].threw

\* C23: while a favorites row exists its title, poster_url, media_type and
\* added_date do not change, whatever a POST for its imdb_id carries; the
\* only change is its removal by a DELETE for its imdb_id, answered 200
\* with the row; a DELETE that matches no row answers 404 and changes
\* nothing.
C23_FavoriteNeverMutated ==
  [][ /\ \A k \in ImdbIds :
           favorites[k] # {} =>
             \/ favorites'[k] = favorites[k]
             \/ /\ favorites'[k] = {}
                /\ \E s \in Slots : FavDeletes(s) /\ inflight[s].req.imdb_id = k
      /\ \A s \in Slots :
           FavDeletes(s) =>
             LET k == inflight[s].req.imdb_id IN
             IF favorites[k] = {}
             THEN inflight'[s].code = "404" /\ favorites' = favorites
             ELSE /\ inflight'[s].code = "200"
                  /\ inflight'[s].result \in favorites[k]
                  /\ favorites'[k] = {} ]_vars

\* A POST carrying another title and media_type than the stored row's was
\* answered with the stored row, which is still there, and a DELETE for a
\* title without a row was answered 404.
C23_Witness ==
  \E s, t \in Slots :
    /\ inflight[s].route = "favorite" /\ inflight[s].code = "200"
    /\ inflight[s].result.title # inflight[s].req.title
    /\ inflight[s].result.media_type # inflight[s].req.media_type
    /\ favorites[inflight[s].req.imdb_id] = {inflight[s].result}
    /\ inflight[t].route = "unfavorite" /\ inflight[t].code = "404"

(***************************************************************************)
(* Properties of the two routes together (SpecShared).                     *)
(***************************************************************************)
\* The handler in slot s takes this step, and the route it serves.
Acting(s) == inflight'[s].pc # inflight[s].pc
RouteOf(s) == IF inflight[s].route # "none" THEN inflight[s].route ELSE inflight'[s].route

\* C24 (as claimed): no step of a /api/favorites handler changes a
\* watched_progress row and no step of a /api/watched handler changes a
\* favorites row.
C24_TablesIndependent ==
  [][ \A s \in Slots :
        /\ (Acting(s) /\ RouteOf(s) \in {"favorite", "unfavorite"}) => db' = db
        /\ (Acting(s) /\ RouteOf(s) = "watched") => favorites' = favorites ]_vars

(***************************************************************************)
(* Properties of overlapping requests (SpecPool).                          *)
(***************************************************************************)
Responded(s) == inflight[s].pc = "done"
ToggledOnKey(req) == EpKey(req.watched_episode.season, req.watched_episode.episode)
\* The row a tv request leaves when it runs alone on the row it found.
RowAlone(sl) ==
  IF sl.before = NoRow
  THEN TvInsertRow(variant, sl.req, sl.before, sl.date, clock)
  ELSE TvUpdateRow(variant, sl.req, sl.before, sl.before, sl.date, clock)

\* C1: two overlapping tv POSTs for one imdb_id that both answered 200 and
\* toggled two different episodes watched leave both episode keys in
\* watched_episodes (no lost update).
C1_OverlappingTogglesBothKept ==
  \A s, t \in Slots :
    ( /\ s # t /\ Responded(s) /\ Responded(t)
      /\ inflight[s].code = "200" /\ inflight[t].code = "200"
      /\ inflight[s].raced /\ inflight[t].raced
      /\ inflight[s].req.imdb_id = inflight[t].req.imdb_id
      /\ ToggledOnKey(inflight[s].req) # ToggledOnKey(inflight[t].req) )
    => /\ HasRow(inflight[s].req.imdb_id)
       /\ {ToggledOnKey(inflight[s].req), ToggledOnKey(inflight[t].req)}
            \subseteq WatchedKeys(inflight[s].req.imdb_id)

\* C3: a tv POST answered 500, with no other request for its imdb_id in
\* flight since it arrived, leaves the row of its imdb_id as it was when the
\* request arrived.
C3_FailedPostLeavesRow ==
  \A s \in Slots :
    (Responded(s) /\ inflight[s].code = "500" /\ ~inflight[s].clash)
    => db[inflight[s].req.imdb_id] = inflight[s].before

C5_FirstTimePostsBothSucceed ==
  \A s, t \in Slots :
    ( /\ s # t /\ Responded(s) /\ Responded(t)
      /\ inflight[s].req.imdb_id = inflight[t].req.imdb_id
      /\ inflight[s].raced /\ inflight[t].raced
      /\ inflight[s].existing = NoRow /\ inflight[t].existing = NoRow
      /\ inflight[s].before = NoRow /\ inflight[t].before = NoRow
      /\ failures = 0 )
    => /\ inflight[s].code = "200" /\ inflight[t].code = "200"
       /\ HasRow(inflight[s].req.imdb_id)

\* C6: a tv POST none of whose statements failed, with no other request for
\* its imdb_id in flight since it arrived, answers 200 and leaves the row it
\* would have left running alone.
C6_OtherTitlesIndependent ==
  \A s \in Slots :
    (Responded(s) /\ ~inflight[s].clash /\ ~inflight[s].threw)
    => /\ inflight[s].code = "200"
       /\ db[inflight[s].req.imdb_id] = RowAlone(inflight[s])

\* C28: in the handler of part_000 app.locals.rolledBack is unset in every
\* state, that is wherever another request can run, and every tv POST of
\* which a statement threw has issued one ROLLBACK of its own, whatever
\* other requests are in flight or have failed.
C28_FlagNeverSuppressesRollback ==
  variant = "v3" =>
    /\ rolledBack = FALSE
    /\ \A s \in Slots :
         (inflight[s].route = "watched" /\ inflight[s].threw) => inflight[s].rollbacks = 1

\* Two overlapping tv POSTs both failed and each issued its ROLLBACK; the
\* first has been answered 500.
C28_Witness ==
  /\ variant = "v3"
  /\ \E s, t \in Slots :
       /\ s # t
       /\ inflight[s].threw /\ inflight[s].rollbacks = 1 /\ inflight[s].code = "500"
       /\ inflight[s].raced
       /\ inflight[t].threw /\ inflight[t].rollbacks = 1


(***************************************************************************)
(* Every request is answered (SpecAnswered).                               *)
(***************************************************************************)
\* A statement that has a client answers, sooner or later.
Progress(s) ==
  \/ BeginDone(s)
  \/ SelectDone(s)
  \/ WriteDone(s)
  \/ CommitDone(s)
  \/ RereadDone(s)
  \/ RollbackDone(s)

\* node keeps running the handler of every request: each awaited statement
\* that can answer does.  A statement need not fail.
\* The requests are those of one title.
AnsweredRequests == {req \in PoolRequests : req.imdb_id = "tt1"}

NextAnswered ==
  \E s \in Slots :
    \/ \E req \in AnsweredRequests : Arrive(s, req)
    \/ Progress(s)
    \/ StatementFails(s)
    \/ Retire(s)

SpecAnswered == InitPool /\ [][NextAnswered]_vars /\ \A s \in Slots : WF_vars(Progress(s))

\* C29: every POST /api/watched that reached the handler is answered, in
\* every version of the handler, whichever statement failed, the ROLLBACK of
\* the catch block included.
C29_EveryRequestAnswered ==
  \A s \in Slots : Running(inflight[s]) ~> (inflight[s].pc = "done")

\* The same of the handler of part_000 only, which catches a failing ROLLBACK.
C29_AnsweredWhenRollbackCaught ==
  (variant = "v3") => \A s \in Slots : Running(inflight[s]) ~> (inflight[s].pc = "done")

\* The handler's promise rejected without a response.
C29_NoneUnanswered == \A s \in Slots : inflight[s].pc # "hung"


(***************************************************************************)
(* POST /api/watched, both branches, statement by statement (SpecPaths).   *)
(* The movie branch issues one statement and no BEGIN.                     *)
(***************************************************************************)
PathRequests ==
  { TvRequest("tt1", Undefined, Toggle("1", "1", "true"), NoOverride, NoOverride),
    MovieRequest("tt1", "watched"),
    MovieRequest("tt1", "unwatched") }

\* A movie request arrives: validation, then DELETE or INSERT ... ON CONFLICT
\* is issued.
MovieArrive(s, req) ==
  LET k == req.imdb_id
      sameKey == {t \in Slots \ {s} : inflight[t].pc # "idle" /\ inflight[t].req.imdb_id = k}
      racing == {t \in sameKey : Running(inflight[t])}
      sl == [IdleSlot EXCEPT !.route = "watched", !.req = req, !.date = clock, !.before = db[k],
                             !.raced = racing # {}, !.clash = racing # {}]
      rejected == MissingRequired(req)
      marked == [t \in Slots |->
                   [inflight[t] EXCEPT !.raced = @ \/ (t \in racing /\ ~rejected),
                                       !.clash = @ \/ (t \in sameKey /\ ~rejected)]]
      next == IF rejected THEN Answered(sl, "400")
              ELSE [sl EXCEPT !.pc = IF req.status = "unwatched" THEN "movie_delete" ELSE "movie_upsert"]
      after == SlotsAfter(s, next, "none")
  IN
  /\ inflight[s].pc = "idle"
  /\ started < MaxRequests
  /\ req.media_type = "movie"
  /\ started' = started + 1
  /\ idle' = after.idle
  /\ pending' = after.pending
  /\ inflight' = [t \in Slots |-> IF t = s THEN after.inflight[t]
                                  ELSE [marked[t] EXCEPT !.conn = after.inflight[t].conn]]
  /\ rolledBack' = FlagAfter(variant, next, rolledBack)
  /\ UNCHANGED <<variant, favVars, db, clock, reply, hist, conns, poolMax, failures>>

\* DELETE ... WHERE imdb_id = $1 AND media_type = 'movie' RETURNING * answers.
MovieDeleteDone(s) ==
  LET sl == inflight[s]
      c == sl.conn
      k == sl.req.imdb_id
      visible == View(c, k)
      next == IF MovieDeleteMatches(visible)
              THEN Answered([sl EXCEPT !.result = visible], "200")
              ELSE Answered(sl, IF variant = "v3" THEN "204" ELSE "200")
  IN
  /\ sl.pc = "movie_delete" /\ c # 0
  /\ ~UpdateWaits(c, k)
  /\ IF MovieDeleteMatches(visible)
     THEN /\ db' = DbAfterWrite(c, k, NoRow)
          /\ conns' = ConnsAfterWrite(c, k, NoRow)
     ELSE UNCHANGED <<db, conns>>
  /\ Step(s, next, "ok")
  /\ rolledBack' = FlagAfter(variant, next, rolledBack)
  /\ UNCHANGED <<variant, favVars, clock, reply, hist, poolMax, failures, started>>

\* INSERT ... ON CONFLICT (imdb_id) DO UPDATE ... RETURNING * answers.
MovieUpsertDone(s) ==
  LET sl == inflight[s]
      c == sl.conn
      k == sl.req.imdb_id
      visible == View(c, k)
      row == IF visible = NoRow
             THEN MovieInsertRow(variant, sl.req, sl.date)
             ELSE MovieConflictRow(variant, sl.req, visible, sl.date)
      next == Answered([sl EXCEPT !.result = row], "200")
  IN
  /\ sl.pc = "movie_upsert" /\ c # 0
  /\ ~InsertWaits(c, k)
  /\ db' = DbAfterWrite(c, k, row)
  /\ conns' = ConnsAfterWrite(c, k, row)
  /\ Step(s, next, "ok")
  /\ rolledBack' = FlagAfter(variant, next, rolledBack)
  /\ UNCHANGED <<variant, favVars, clock, reply, hist, poolMax, failures, started>>

NextPaths ==
  \E s \in Slots :
    \/ \E req \in PathRequests : Arrive(s, req)
    \/ \E req \in PathRequests : MovieArrive(s, req)
    \/ BeginDone(s)
    \/ SelectDone(s)
    \/ WriteDone(s)
    \/ CommitDone(s)
    \/ RereadDone(s)
    \/ RollbackDone(s)
    \/ MovieDeleteDone(s)
    \/ MovieUpsertDone(s)
    \/ StatementFails(s)
    \/ Retire(s)

SpecPaths == InitPool /\ [][NextPaths]_vars

\* C30: a request to POST /api/watched issues no ROLLBACK after its COMMIT
\* answered and none when it issued no BEGIN; a request that issued BEGIN
\* and was answered had its COMMIT answer or issued one ROLLBACK, not both.
C30_RollbackOnlyInOwnTransaction ==
  \A s \in Slots :
    LET sl == inflight[s] IN
    sl.route = "watched" =>
      /\ sl.rollbacks > 0 => (sl.begun /\ ~sl.committed)
      /\ (sl.pc = "done" /\ sl.begun) => (sl.committed \/ sl.rollbacks = 1)

\* ROLLBACK after the request's own COMMIT answered.
C30_NoRollbackAfterCommit ==
  \A s \in Slots : ~(inflight[s].committed /\ inflight[s].rollbacks > 0)

\* ROLLBACK of a request that issued no BEGIN.
C30_NoRollbackWithoutBegin ==
  \A s \in Slots : inflight[s].rollbacks > 0 => inflight[s].begun


(***************************************************************************)
(* Rows and the media type of the requests that write them (SpecEpisodes). *)
(***************************************************************************)
\* C31: after POST /api/watched answered 200 with a row, the row stored for
\* the request's imdb_id has the request's media_type.
C31_RowHasRequestMediaType ==
  (reply.code = "200" /\ reply.body # NoRow /\ db[reply.req.imdb_id] # NoRow)
    => db[reply.req.imdb_id].media_type = reply.req.media_type

\* A tv request answered 200 leaves no episode map in a row of a movie.
C31_NoEpisodesInMovieRow ==
  (reply.code = "200" /\ reply.req.media_type = "tv" /\ reply.body # NoRow)
    => ~(reply.body.media_type = "movie" /\ reply.body.watched_episodes # JNull)

\* A movie request answered 200 with a row leaves its status in no tv row.
C31_NoMovieStatusInTvRow ==
  (reply.code = "200" /\ reply.req.media_type = "movie" /\ db[reply.req.imdb_id] # NoRow
     /\ reply.body # NoRow)
    => db[reply.req.imdb_id].media_type # "tv"


(***************************************************************************)
(* last_watched_episode and watched_episodes of one row.                   *)
(***************************************************************************)
\* The key of the episode last_watched_episode of the row of k names.
LastKey(k) ==
  EpKey(db[k].last_watched_episode.obj.season, db[k].last_watched_episode.obj.episode)

\* C32: a tv row whose last_watched_episode is not null has the key
\* S<season>E<episode> of that episode in its watched_episodes.
C32_LastEpisodeIsWatched ==
  \A k \in ImdbIds :
    (IsTvRow(k) /\ db[k].last_watched_episode # JNull) => LastKey(k) \in WatchedKeys(k)


(***************************************************************************)
(* GET /api/watched and the time of the writes (SpecOrder).  new Date() is *)
(* read when the handler starts; time passes between the statements.       *)
(***************************************************************************)
MaxClock == 1

\* Time passes.
Tick ==
  /\ clock < MaxClock
  /\ clock' = clock + 1
  /\ UNCHANGED <<variant, favVars, db, reply, hist, poolVars>>

\* One request for each of two titles.
OrderRequests ==
  { TvRequest("tt1", Undefined, Toggle("1", "1", "true"), NoOverride, NoOverride),
    TvRequest("tt2", Undefined, Toggle("1", "1", "true"), NoOverride, NoOverride) }

NextOrder ==
  \/ \E s \in Slots :
       \/ \E req \in OrderRequests : Arrive(s, req)
       \/ Progress(s)
       \/ StatementFails(s)
       \/ Retire(s)
  \/ Tick

SpecOrder == InitPool /\ [][NextOrder]_vars

\* SELECT ... FROM watched_progress ORDER BY last_interaction_date DESC:
\* the row of k in the table rows is the first of the list, or may be when
\* other rows have the same last_interaction_date.
ListedFirst(rows, k) ==
  /\ rows[k] # NoRow
  /\ \A j \in ImdbIds \ {k} :
       rows[j] # NoRow => rows[j].last_interaction_date <= rows[k].last_interaction_date

\* A write to the row of k takes effect in this step.
WriteTakesEffect(k) == db'[k] # db[k] /\ db'[k] # NoRow

\* C33: when a write of POST /api/watched to the row of a title takes
\* effect, GET /api/watched lists that row first: its last_interaction_date
\* is not older than that of any row written before.
C33_LastWriteListedFirst ==
  [][\A k \in ImdbIds : WriteTakesEffect(k) => ListedFirst(db', k)]_vars

====
